---- MODULE Spec2Model ----
(***************************************************************************)
(* TollVault (main.go): CSV ingestion (processCSV), the transactions       *)
(* table (saveTransaction), clear-last-upload (handleReset) and the two    *)
(* aggregation queries (getAnalyticsFiltered, getHistory).                 *)
(*                                                                         *)
(* Amounts are float64 in the program.  The model draws them from decimal  *)
(* strings that denote whole numbers, on which float64 addition and        *)
(* comparison are exact, and keeps them as integers.                       *)
(***************************************************************************)
EXTENDS Integers, Sequences, FiniteSets, TLC

\* Bounds of the model.
MaxRows == 3        \* data records per uploaded file, sequential uploads
MaxConcRows == 1    \* data records per uploaded file, concurrent uploads
MaxDay == 1         \* how many times the wall clock passes midnight
BaseDay == 20088    \* wall clock at start, in days since 1970-01-01 (2024-12-31)

\* The two goroutines that call processCSV: handleUpload, handleTelegramFile.
Procs == {"web", "bot"}

VARIABLES
    db,         \* table transactions: a set of rows
    now,        \* time.Now(), in days since 1970-01-01
    pc,         \* pc[p]: "idle", "rows" (inside the for loop), "reply"
    file,       \* file[p]: the CSV document handed to processCSV
    pos,        \* pos[p]: data records the csv.Reader has consumed
    hm,         \* hm[p]: header name -> column index (0-based)
    today,      \* today[p]: upload date of this call
    result,     \* result[p]: *UploadResult being accumulated
    ret,        \* ret[p]: what processCSV returned (result, err)
    dberr,      \* dberr[p]: the error of p's last saveTransaction ("" is
                \* nil); processCSV drops it
    rpc,        \* handleReset: "idle", "delete", "reply"
    lastDate,   \* handleReset: sql.NullString scanned from MAX(upload_date)
    status,     \* handleReset: HTTP status written, 0 while none
    dbBefore    \* history: db when the most recent processCSV call began,
                \* while no other handler has run since

vars == <<db, now, pc, file, pos, hm, today, result, ret, dberr, rpc,
          lastDate, status, dbBefore>>

-----------------------------------------------------------------------------
\* Dates.  time.Now().Format("2006-01-02") gives a zero-padded yyyy-mm-dd
\* string; the model keeps it as <<yyyy, mm, dd>>, and compares it the way
\* SQLite compares the TEXT: field by field from the left.

FormatDate(z) ==
    LET z1  == z + 719468
        era == z1 \div 146097
        doe == z1 - era * 146097
        yoe == (doe - doe \div 1460 + doe \div 36524 - doe \div 146096) \div 365
        doy == doe - (365 * yoe + yoe \div 4 - yoe \div 100)
        mp  == (5 * doy + 2) \div 153
        d   == doy - (153 * mp + 2) \div 5 + 1
        m   == IF mp < 10 THEN mp + 3 ELSE mp - 9
        y   == yoe + era * 400 + (IF m <= 2 THEN 1 ELSE 0)
    IN  <<y, m, d>>

\* a < b for two same-length keys, as a string comparison decides it
RECURSIVE TextLess(_, _)
TextLess(a, b) ==
    IF a = <<>> \/ b = <<>> THEN FALSE
    ELSE IF Head(a) # Head(b) THEN Head(a) < Head(b)
    ELSE TextLess(Tail(a), Tail(b))

NullDate == <<>>

-----------------------------------------------------------------------------
\* Strings.  A header cell is a sequence of pieces, each a run of
\* non-blank characters or one blank character.

IsSpace(c) == c \in {" ", "\t"}

RECURSIVE TrimLeft(_)
TrimLeft(s) ==
    IF s # <<>> /\ IsSpace(Head(s)) THEN TrimLeft(Tail(s)) ELSE s

RECURSIVE TrimRight(_)
TrimRight(s) ==
    IF s # <<>> /\ IsSpace(s[Len(s)]) THEN TrimRight(SubSeq(s, 1, Len(s) - 1))
    ELSE s

RECURSIVE Concat(_)
Concat(s) == IF s = <<>> THEN "" ELSE Head(s) \o Concat(Tail(s))

\* strings.TrimSpace
TrimSpace(cell) == Concat(TrimRight(TrimLeft(cell)))

\* The decimal strings of the model and the float64 each denotes.
Decimal ==
    [s \in {"125", "125.00", "75", "0", "100", "10", "5", "18"} |->
        CASE s = "125"    -> 125
          [] s = "125.00" -> 125
          [] s = "75"     -> 75
          [] s = "0"      -> 0
          [] s = "100"    -> 100
          [] s = "10"     -> 10
          [] s = "5"      -> 5
          [] s = "18"     -> 18]

\* float64 +Inf, as a number above every finite sum of the model.
PosInf == 1000000

\* float64 NaN, as a number no sum of the model reaches.
NaN == 2000000

\* float64 addition on the values of the model: NaN absorbs, then +Inf.
FloatAdd(a, b) ==
    IF a = NaN \/ b = NaN THEN NaN
    ELSE IF a = PosInf \/ b = PosInf THEN PosInf
    ELSE a + b

\* Well-formed decimal strings beyond the range of float64.
OutOfRange == {"1e400"}

\* strconv.ParseFloat(s, 64): the value and whether err != nil; the value
\* is 0 on a syntax error and +Inf on a range error; the text "NaN" is
\* accepted and denotes NaN.
ParseFloat(s) ==
    IF s \in DOMAIN Decimal THEN [f |-> Decimal[s], err |-> FALSE]
    ELSE IF s = "NaN" THEN [f |-> NaN, err |-> FALSE]
    ELSE IF s \in OutOfRange THEN [f |-> PosInf, err |-> TRUE]
    ELSE [f |-> 0, err |-> TRUE]

-----------------------------------------------------------------------------
\* The required headers, in the order processCSV checks them.
Required ==
    <<"ENROLMENT_NO_DATE", "TOTAL_AMOUNT_CHARGED", "GST_AMOUNT",
      "OPERATOR_ID", "RESIDENT_NAME">>

\* hm := make(map[string]int); for i, h := range headers { hm[TrimSpace(h)] = i }
\* A later column of the same name overwrites an earlier one.
BuildHm(headers) ==
    LET names == {TrimSpace(headers[i]) : i \in 1..Len(headers)}
    IN  [n \in names |->
            (CHOOSE i \in 1..Len(headers) :
                /\ TrimSpace(headers[i]) = n
                /\ \A j \in 1..Len(headers) :
                      TrimSpace(headers[j]) = n => j <= i) - 1]

\* The last required header is not looked for.
RequiredChecked_FirstFour == SubSeq(Required, 1, 4)

\* The required headers looked for: all five.
RequiredChecked == Required

\* The first required header that is not a key of the map, "" if none.
MissingColumn(m) ==
    LET miss == {i \in 1..Len(RequiredChecked) : RequiredChecked[i] \notin DOMAIN m}
    IN  IF miss = {} THEN ""
        ELSE RequiredChecked[CHOOSE i \in miss : \A j \in miss : i <= j]

\* rec[hm[name]]; a missing key of a Go map reads as 0
Field(rec, m, name) == rec[(IF name \in DOMAIN m THEN m[name] ELSE 0) + 1]

ZeroResult ==
    [Rows |-> 0, Revenue |-> 0, GST |-> 0,
     Slabs |-> [Count125 |-> 0, Count75 |-> 0, Count0 |-> 0]]

\* Slabs taken as price thresholds instead of exact prices.
UploadSlabs_Threshold(s, amt) ==
    CASE amt >= 125 -> [s EXCEPT !.Count125 = @ + 1]
      [] amt >= 75  -> [s EXCEPT !.Count75 = @ + 1]
      [] OTHER      -> [s EXCEPT !.Count0 = @ + 1]

\* The switch of processCSV on amt.
UploadSlabs(s, amt) ==
    CASE amt = 125 -> [s EXCEPT !.Count125 = @ + 1]
      [] amt = 75  -> [s EXCEPT !.Count75 = @ + 1]
      [] amt = 0   -> [s EXCEPT !.Count0 = @ + 1]
      [] OTHER     -> s

\* result.Rows++ ... after one decoded record
Accumulate(res, amt, gst) ==
    [Rows    |-> res.Rows + 1,
     Revenue |-> FloatAdd(res.Revenue, amt),
     GST     |-> FloatAdd(res.GST, gst),
     Slabs   |-> UploadSlabs(res.Slabs, amt)]

\* The Transaction processCSV builds from one record.
MakeTransaction(rec, m, date) ==
    [enrolment_no_date    |-> Field(rec, m, "ENROLMENT_NO_DATE"),
     total_amount_charged |-> ParseFloat(Field(rec, m, "TOTAL_AMOUNT_CHARGED")).f,
     gst_amount           |-> ParseFloat(Field(rec, m, "GST_AMOUNT")).f,
     operator_id          |-> Field(rec, m, "OPERATOR_ID"),
     resident_name        |-> Field(rec, m, "RESIDENT_NAME"),
     upload_date          |-> date]

\* SQL NULL in a REAL column, as a number no amount of the model equals.
SqlNull == -1

\* A float64 bound to a statement parameter: SQLite stores NaN as NULL.
BindDouble(x) == IF x = NaN THEN SqlNull ELSE x

\* The row the VALUES(?, ?, ?, ?, ?, ?) of saveTransaction give for t.
StoredRow(t) ==
    [t EXCEPT !.total_amount_charged = BindDouble(@),
              !.gst_amount = BindDouble(@)]

\* The column has no UNIQUE constraint: every insert adds a row.
saveTransaction_NoUnique(table, t) ==
    [db |-> table \cup {StoredRow(t)}, err |-> ""]

\* INSERT OR REPLACE: the row of a stored key is overwritten.
saveTransaction_Replace(table, t) ==
    [db  |-> {r \in table : r.enrolment_no_date # t.enrolment_no_date}
                \cup {StoredRow(t)},
     err |-> ""]

\* INSERT ... ON CONFLICT(enrolment_no_date) DO NOTHING: the table after it
\* and the error returned ("" is nil).
saveTransaction(table, t) ==
    IF \E r \in table : r.enrolment_no_date = t.enrolment_no_date
    THEN [db |-> table, err |-> ""]
    ELSE [db |-> table \cup {StoredRow(t)}, err |-> ""]

\* SELECT MAX(upload_date) FROM transactions; NULL on an empty table
MaxUploadDate(table) ==
    IF table = {} THEN NullDate
    ELSE (CHOOSE r \in table :
             \A q \in table : ~TextLess(r.upload_date, q.upload_date)).upload_date

\* DELETE FROM transactions, without the WHERE clause
DeleteBatch_All(table, date) == {}

\* DELETE FROM transactions WHERE upload_date = ?
DeleteBatch(table, date) == {r \in table : r.upload_date # date}

\* The summary counts a record only when its insert added a row.
ProcessRecord_CountInserted(table, res, rec, m, date) ==
    LET t == MakeTransaction(rec, m, date)
        saved == saveTransaction(table, t)
    IN  [db     |-> saved.db,
         err    |-> saved.err,
         result |-> IF saved.db = table THEN res
                    ELSE Accumulate(res, t.total_amount_charged, t.gst_amount)]

\* The body of the for loop of processCSV for one well-formed record: the
\* table and the result after it.
ProcessRecord(table, res, rec, m, date) ==
    LET t == MakeTransaction(rec, m, date)
        saved == saveTransaction(table, t)
    IN  [db     |-> saved.db,
         err    |-> saved.err,
         result |-> Accumulate(res, t.total_amount_charged, t.gst_amount)]

\* reader.Read() fails on record i: it has not the header's field count.
FieldCountError(f, i) == Len(f.records[i]) # Len(f.header)

Returned(table, kind, res, err) ==
    [db |-> table, kind |-> kind, result |-> res, err |-> err]

\* The for loop of processCSV from record i + 1 on, run without interruption.
RECURSIVE ReadLoop(_, _, _, _, _, _)
ReadLoop(table, res, f, m, date, i) ==
    IF i = Len(f.records) THEN Returned(table, "ok", res, "")
    ELSE IF FieldCountError(f, i + 1)
    THEN Returned(table, "err", ZeroResult, "wrong number of fields")
    ELSE LET s == ProcessRecord(table, res, f.records[i + 1], m, date)
         IN  ReadLoop(s.db, s.result, f, m, date, i + 1)

\* processCSV run without interruption on table, on the given day: the
\* table after it and what it returns.
processCSV(table, f, date) ==
    IF f.header = <<>> THEN Returned(table, "err", ZeroResult, "EOF")
    ELSE IF MissingColumn(BuildHm(f.header)) # ""
    THEN Returned(table, "err", ZeroResult,
                  "missing column: " \o MissingColumn(BuildHm(f.header)))
    ELSE ReadLoop(table, ZeroResult, f, BuildHm(f.header), date, 0)

-----------------------------------------------------------------------------
\* Queries.

\* The switch of getAnalyticsFiltered on a.
AnalyticsSlabs(s, a) ==
    CASE a = 125 -> [s EXCEPT !.Count125 = @ + 1]
      [] a = 75  -> [s EXCEPT !.Count75 = @ + 1]
      [] a = 0   -> [s EXCEPT !.Count0 = @ + 1]
      [] OTHER   -> s

\* var a, g float64; rows.Scan(&a, &g) on row r: Scan stops with an
\* error, which is not looked at, at the first NULL column and leaves that
\* variable and the later ones 0.
ScanAmounts(r) ==
    IF r.total_amount_charged = SqlNull THEN [a |-> 0, g |-> 0]
    ELSE IF r.gst_amount = SqlNull THEN [a |-> r.total_amount_charged, g |-> 0]
    ELSE [a |-> r.total_amount_charged, g |-> r.gst_amount]

\* for rows.Next() { ... } of getAnalyticsFiltered
RECURSIVE ScanRows(_)
ScanRows(rows) ==
    IF rows = {}
    THEN [rev |-> 0, gst |-> 0,
          s |-> [Count125 |-> 0, Count75 |-> 0, Count0 |-> 0], total |-> 0]
    ELSE LET r == CHOOSE r \in rows : TRUE
             rest == ScanRows(rows \ {r})
             v == ScanAmounts(r)
         IN  [rev   |-> FloatAdd(rest.rev, v.a),
              gst   |-> FloatAdd(rest.gst, v.g),
              s     |-> AnalyticsSlabs(rest.s, v.a),
              total |-> rest.total + 1]

\* getAnalyticsFiltered(where): where is "" (NullDate here) or
\* "upload_date = '<day>'"
getAnalyticsFiltered(table, day) ==
    ScanRows(IF day = NullDate THEN table
             ELSE {r \in table : r.upload_date = day})

\* The date a yyyy-mm-dd text denotes, in days since 1970-01-01.
ParseDate(date) ==
    LET m   == date[2]
        d   == date[3]
        y   == IF m <= 2 THEN date[1] - 1 ELSE date[1]
        era == y \div 400
        yoe == y - era * 400
        doy == (153 * (IF m > 2 THEN m - 3 ELSE m + 9) + 2) \div 5 + d - 1
        doe == yoe * 365 + yoe \div 4 - yoe \div 100 + doy
    IN  era * 146097 + doe - 719468

\* strftime('%U', date): weeks starting on Sunday.
WeekOfYear_Sunday(date) ==
    LET z    == ParseDate(date)
        wd   == (z + 4) % 7                        \* 0 = Sunday
        yday == z - ParseDate(<<date[1], 1, 1>>)
    IN  (yday + 7 - wd) \div 7

\* strftime('%W', date): week of the year 00-53, weeks starting on Monday,
\* week 01 starting on the year's first Monday.
WeekOfYear(date) ==
    LET z    == ParseDate(date)
        wd   == (z + 3) % 7                        \* 0 = Monday
        yday == z - ParseDate(<<date[1], 1, 1>>)   \* 0 = 1 January
    IN  (yday + 7 - wd) \div 7

\* groupExpr of getHistory applied to an upload_date
GroupExpr(period, date) ==
    CASE period = "week"  -> <<date[1], WeekOfYear(date)>>
      [] period = "month" -> <<date[1], date[2]>>
      [] period = "year"  -> <<date[1]>>
      [] OTHER            -> date

\* the WHERE clause of getHistory
InRange(date, fromDate, toDate) ==
    /\ fromDate # NullDate => ~TextLess(date, fromDate)
    /\ toDate # NullDate => ~TextLess(toDate, date)

\* CASE WHEN total_amount_charged = v THEN 1 ELSE 0 END
CaseWhen(a, v) == IF a = v THEN 1 ELSE 0

\* the total of term[r] over rows
RECURSIVE SumOver(_, _)
SumOver(rows, term) ==
    IF rows = {} THEN 0
    ELSE LET r == CHOOSE r \in rows : TRUE
         IN  FloatAdd(term[r], SumOver(rows \ {r}, term))

\* SUM(expr) over a group of rows; term[r] is the expression on row r.
\* NULLs are left out, and the sum of no value is NULL.
SqlSum(rows, term) ==
    LET vals == {r \in rows : term[r] # SqlNull}
    IN  IF vals = {} THEN SqlNull ELSE SumOver(vals, term)

\* ORDER BY period, ascending
RECURSIVE OrderDesc_Asc(_)
OrderDesc_Asc(keys) ==
    IF keys = {} THEN <<>>
    ELSE LET k == CHOOSE k \in keys : \A j \in keys : ~TextLess(j, k)
         IN  <<k>> \o OrderDesc_Asc(keys \ {k})

\* ORDER BY period DESC
RECURSIVE OrderDesc(_)
OrderDesc(keys) ==
    IF keys = {} THEN <<>>
    ELSE LET k == CHOOSE k \in keys : \A j \in keys : ~TextLess(k, j)
         IN  <<k>> \o OrderDesc(keys \ {k})

\* One row of the GROUP BY of getHistory.
HistoryRow(rows, k) ==
    LET Amt   == [r \in rows |-> r.total_amount_charged]
        Gst   == [r \in rows |-> r.gst_amount]
        Is125 == [r \in rows |-> CaseWhen(r.total_amount_charged, 125)]
        Is75  == [r \in rows |-> CaseWhen(r.total_amount_charged, 75)]
        Is0   == [r \in rows |-> CaseWhen(r.total_amount_charged, 0)]
        rev   == SqlSum(rows, Amt)
        gst   == SqlSum(rows, Gst)
        h     == [Period |-> k, Revenue |-> 0, GST |-> 0,
                  Count125 |-> 0, Count75 |-> 0, Count0 |-> 0, Total |-> 0]
    IN  \* var h HistoryRow; rows.Scan(&h.Period, &h.Revenue, &h.GST, ...):
        \* Scan stops at the first NULL and leaves the later fields 0
        IF rev = SqlNull THEN h
        ELSE IF gst = SqlNull THEN [h EXCEPT !.Revenue = rev]
        ELSE [Period   |-> k,
              Revenue  |-> rev,
              GST      |-> gst,
              Count125 |-> SqlSum(rows, Is125),
              Count75  |-> SqlSum(rows, Is75),
              Count0   |-> SqlSum(rows, Is0),
              Total    |-> Cardinality(rows)]

\* the groups of GROUP BY period
GroupBy(rows, period) == {GroupExpr(period, r.upload_date) : r \in rows}

getHistory(table, period, fromDate, toDate) ==
    LET sel  == {r \in table : InRange(r.upload_date, fromDate, toDate)}
        keys == OrderDesc(GroupBy(sel, period))
    IN  [i \in 1..Len(keys) |->
            HistoryRow({r \in sel : GroupExpr(period, r.upload_date) = keys[i]},
                       keys[i])]

-----------------------------------------------------------------------------
\* Input documents.

Cell(name) == <<name>>

CanonicalHeader == [i \in 1..5 |-> Cell(Required[i])]

\* another column order, blanks around names, one extra column
ShuffledHeader ==
    << <<" ", "RESIDENT_NAME">>, <<"GST_AMOUNT", " ">>, <<"PLAZA">>,
       <<"\t", "ENROLMENT_NO_DATE", "\t">>, <<"OPERATOR_ID">>,
       <<"TOTAL_AMOUNT_CHARGED">> >>

\* the canonical header without its i-th column
Without(i) == [j \in 1..4 |-> Cell(Required[IF j < i THEN j ELSE j + 1])]

BadHeaders ==
    {Without(i) : i \in 1..5} \cup
    { [CanonicalHeader EXCEPT ![3] = <<"gst_amount">>],
      [CanonicalHeader EXCEPT ![2] = <<"TOTAL", " ", "AMOUNT_CHARGED">>],
      <<>> }

\* The toll events of the model: key, amount, GST, operator, resident.
Events ==
    { <<"A", "125",    "10",  "OP1", "Alice">>,
      <<"B", "75",     "5",   "OP2", "Bob">>,
      <<"A", "0",      "0",   "OP2", "Bob">>,
      <<"B", "100",    "18",  "OP1", "Alice">>,
      <<"A", "abc",    "5",   "OP1", "Carol">>,
      <<"B", "1e400",  "x",   "OP2", "Dave">>,
      <<"A", "NaN",    "5",   "OP2", "Erin">> }

\* One line of a document: an event, cut short by one field if short.
Lines == {[ev |-> e, short |-> FALSE] : e \in Events}
            \cup {[ev |-> <<"B", "75", "5", "OP2", "Bob">>, short |-> TRUE]}

\* The record a line gives under a header: each event field under the
\* column of its name, "-" under any other column.
Layout(header, line) ==
    LET full == [j \in 1..Len(header) |->
                    LET n == TrimSpace(header[j])
                    IN  IF \E i \in 1..5 : Required[i] = n
                        THEN line.ev[CHOOSE i \in 1..5 : Required[i] = n]
                        ELSE "-"]
    IN  IF line.short /\ Len(header) > 0
        THEN SubSeq(full, 1, Len(header) - 1)
        ELSE full

Bodies(pool, n) == UNION {[1..k -> pool] : k \in 0..n}

Document(header, body) ==
    [header |-> header,
     records |-> [i \in 1..Len(body) |-> Layout(header, body[i])]]

\* Long documents use the lines with amounts 125 and 75 and the short
\* line; every line and every header occurs in a document of one record.
CoreLines == {l \in Lines : l.ev[2] \in {"125", "75"}}

SeqFiles ==
    {Document(CanonicalHeader, b) :
        b \in Bodies(CoreLines, MaxRows) \cup Bodies(Lines, 1)}
    \cup {Document(h, b) : h \in {ShuffledHeader} \cup BadHeaders,
                           b \in Bodies(Lines, 1)}

\* Concurrent uploads race on one enrolment key, with different values.
ConcLines == {l \in Lines : l.ev[1] = "A" /\ l.ev[2] \in {"125", "0"}}

ConcFiles == {Document(CanonicalHeader, b) : b \in Bodies(ConcLines, MaxConcRows)}

NoFile == [header |-> <<>>, records |-> <<>>]
NoMap == [n \in {} |-> 0]
NoReturn == [kind |-> "none", result |-> ZeroResult, err |-> ""]
NoDb == [valid |-> FALSE, rows |-> {}]

-----------------------------------------------------------------------------
Init ==
    /\ db = {}
    /\ now = BaseDay
    /\ pc = [p \in Procs |-> "idle"]
    /\ file = [p \in Procs |-> NoFile]
    /\ pos = [p \in Procs |-> 0]
    /\ hm = [p \in Procs |-> NoMap]
    /\ today = [p \in Procs |-> NullDate]
    /\ result = [p \in Procs |-> ZeroResult]
    /\ ret = [p \in Procs |-> NoReturn]
    /\ dberr = [p \in Procs |-> ""]
    /\ rpc = "idle"
    /\ lastDate = NullDate
    /\ status = 0
    /\ dbBefore = NoDb

\* No handler is running.
Quiescent == rpc = "idle" /\ \A q \in Procs : pc[q] = "idle"

\* return nil, err
Fail(p, e) ==
    /\ ret' = [ret EXCEPT ![p] = [kind |-> "err", result |-> ZeroResult, err |-> e]]
    /\ pc' = [pc EXCEPT ![p] = "reply"]

\* processCSV up to the for loop: read the header record, build hm, check
\* the required columns, take today's date.
Upload(p, f) ==
    /\ pc[p] = "idle"
    /\ file' = [file EXCEPT ![p] = f]
    /\ dbBefore' = IF Quiescent THEN [valid |-> TRUE, rows |-> db] ELSE NoDb
    /\ IF f.header = <<>>
       THEN /\ Fail(p, "EOF")
            /\ UNCHANGED <<hm, today, result>>
       ELSE LET m == BuildHm(f.header) IN
            IF MissingColumn(m) # ""
            THEN /\ Fail(p, "missing column: " \o MissingColumn(m))
                 /\ UNCHANGED <<hm, today, result>>
            ELSE /\ hm' = [hm EXCEPT ![p] = m]
                 /\ today' = [today EXCEPT ![p] = FormatDate(now)]
                 /\ result' = [result EXCEPT ![p] = ZeroResult]
                 /\ pc' = [pc EXCEPT ![p] = "rows"]
                 /\ UNCHANGED ret
    /\ UNCHANGED <<db, now, pos, dberr, rpc, lastDate, status>>

\* The inserts of the call are rolled back when a record fails to decode.
DecodeFailure_Rollback(p) ==
    /\ Fail(p, "wrong number of fields")
    /\ db' = dbBefore.rows
    /\ UNCHANGED <<pos, result, dberr>>

\* reader.Read() gave csv.ErrFieldCount: return nil, err
DecodeFailure(p) ==
    /\ Fail(p, "wrong number of fields")
    /\ UNCHANGED <<db, pos, result, dberr>>

\* One iteration of the for loop of processCSV.
ReadRow(p) ==
    /\ pc[p] = "rows"
    /\ IF pos[p] = Len(file[p].records)
       THEN \* io.EOF: return result, nil
            /\ ret' = [ret EXCEPT ![p] =
                          [kind |-> "ok", result |-> result[p], err |-> ""]]
            /\ pc' = [pc EXCEPT ![p] = "reply"]
            /\ UNCHANGED <<db, pos, result, dberr>>
       ELSE LET rec == file[p].records[pos[p] + 1] IN
            IF FieldCountError(file[p], pos[p] + 1)
            THEN DecodeFailure(p)
            ELSE LET s == ProcessRecord(db, result[p], rec, hm[p], today[p]) IN
                 /\ db' = s.db
                 /\ dberr' = [dberr EXCEPT ![p] = s.err]
                 /\ result' = [result EXCEPT ![p] = s.result]
                 /\ pos' = [pos EXCEPT ![p] = @ + 1]
                 /\ UNCHANGED <<pc, ret>>
    /\ UNCHANGED <<now, file, hm, today, rpc, lastDate, status, dbBefore>>

\* handleUpload / handleTelegramFile after processCSV returned: the error
\* or the report is sent and the goroutine ends.
Reply(p) ==
    /\ pc[p] = "reply"
    /\ pc' = [pc EXCEPT ![p] = "idle"]
    /\ file' = [file EXCEPT ![p] = NoFile]
    /\ pos' = [pos EXCEPT ![p] = 0]
    /\ hm' = [hm EXCEPT ![p] = NoMap]
    /\ today' = [today EXCEPT ![p] = NullDate]
    /\ result' = [result EXCEPT ![p] = ZeroResult]
    /\ ret' = [ret EXCEPT ![p] = NoReturn]
    /\ dberr' = [dberr EXCEPT ![p] = ""]
    /\ UNCHANGED <<db, now, rpc, lastDate, status, dbBefore>>

\* handleReset up to the DELETE: the method check and SELECT MAX(upload_date).
ResetStart(method) ==
    /\ rpc = "idle"
    /\ IF method # "POST"
       THEN /\ status' = 405
            /\ rpc' = "reply"
            /\ UNCHANGED lastDate
       ELSE IF MaxUploadDate(db) = NullDate
       THEN /\ status' = 303
            /\ rpc' = "reply"
            /\ UNCHANGED lastDate
       ELSE /\ lastDate' = MaxUploadDate(db)
            /\ rpc' = "delete"
            /\ UNCHANGED status
    /\ UNCHANGED <<db, now, pc, file, pos, hm, today, result, ret, dberr,
                   dbBefore>>

\* handleReset: the DELETE and the redirect.
ResetDelete ==
    /\ rpc = "delete"
    /\ db' = DeleteBatch(db, lastDate)
    /\ status' = 303
    /\ rpc' = "reply"
    /\ dbBefore' = NoDb
    /\ UNCHANGED <<now, pc, file, pos, hm, today, result, ret, dberr, lastDate>>

\* handleReset returns.
ResetReply ==
    /\ rpc = "reply"
    /\ rpc' = "idle"
    /\ lastDate' = NullDate
    /\ status' = 0
    /\ UNCHANGED <<db, now, pc, file, pos, hm, today, result, ret, dberr,
                   dbBefore>>

\* Midnight passes.
Tick ==
    /\ now < BaseDay + MaxDay
    /\ now' = now + 1
    /\ UNCHANGED <<db, pc, file, pos, hm, today, result, ret, dberr, rpc,
                   lastDate, status, dbBefore>>

Methods == {"GET", "POST"}

\* Handlers run concurrently, interleaved statement by statement.
Next ==
    \/ \E p \in Procs : \E f \in ConcFiles : Upload(p, f)
    \/ \E p \in Procs : ReadRow(p)
    \/ \E p \in Procs : Reply(p)
    \/ \E m \in Methods : ResetStart(m)
    \/ ResetDelete
    \/ ResetReply
    \/ Tick

Spec == Init /\ [][Next]_vars

\* One request at a time: a handler starts only when none is running.
\* Both goroutines run the same processCSV, so the web handler stands for
\* either.
NextSeq ==
    \/ Quiescent /\ \E f \in SeqFiles : Upload("web", f)
    \/ \E p \in Procs : ReadRow(p)
    \/ \E p \in Procs : Reply(p)
    \/ Quiescent /\ \E m \in Methods : ResetStart(m)
    \/ ResetDelete
    \/ ResetReply
    \/ Tick

SpecSeq == Init /\ [][NextSeq]_vars

\* The days of the calendar specification, counted from the first: a
\* Tuesday, the next day (a new year), the Sunday and the Monday after it,
\* and a day of the next month.
DayOffsets == {0, 1, 5, 6, 32}

CalendarDays == {BaseDay + k : k \in DayOffsets}

\* Nights pass between two requests.
DaysPass ==
    /\ \E d \in CalendarDays : d > now /\ now' = d
    /\ UNCHANGED <<db, pc, file, pos, hm, today, result, ret, dberr, rpc,
                   lastDate, status, dbBefore>>

\* One record per upload, of three keys.
CalLines ==
    {[ev |-> e, short |-> FALSE] :
        e \in { <<"A", "125", "10", "OP1", "Alice">>,
                <<"B", "75",  "5",  "OP2", "Bob">>,
                <<"C", "NaN", "18", "OP1", "Alice">> }}

CalFiles == {Document(CanonicalHeader, <<l>>) : l \in CalLines}

\* One request at a time, days apart: the tables that uploads over some
\* weeks leave.
NextCal ==
    \/ Quiescent /\ \E f \in CalFiles : Upload("web", f)
    \/ \E p \in Procs : ReadRow(p)
    \/ \E p \in Procs : Reply(p)
    \/ Quiescent /\ DaysPass

SpecCal == Init /\ [][NextCal]_vars

-----------------------------------------------------------------------------
\* Vocabulary of the properties.

Keys(table) == {r.enrolment_no_date : r \in table}

\* The transaction p's call makes of record i of its file.
TxOf(p, i) == MakeTransaction(file[p].records[i], hm[p], today[p])

\* p has just run the loop body on a record.
Inserted(p) == pc[p] = "rows" /\ pos[p] >= 1

\* In this step p runs the loop body on a record.
InsertStep(p) == pc[p] = "rows" /\ pos'[p] = pos[p] + 1

\* C1: under any interleaving of ingestion calls and clear-last-batch calls
\* the table holds at most one row per enrolment key, and no insert, also of
\* a key already stored, returns an error.
C1_UniqueKeys ==
    /\ \A r, q \in db : r.enrolment_no_date = q.enrolment_no_date => r = q
    /\ \A p \in Procs : dberr[p] = ""

\* Two calls run at once and one has met a key that was stored with other
\* values.
C1_Witness ==
    \E p, q \in Procs :
        /\ p # q
        /\ Inserted(p)
        /\ pc[q] = "rows"
        /\ TxOf(p, pos[p]).enrolment_no_date \in Keys(db)
        /\ TxOf(p, pos[p]) \notin db

\* C2: a stored row never changes: whatever step is taken, a key that is
\* still stored has the row it had, and an insert of a stored key leaves
\* the whole table as it was.
C2_FirstWriterWins ==
    [][ /\ \A r \in db : \A q \in db' :
              q.enrolment_no_date = r.enrolment_no_date => q = r
        /\ \A p \in Procs :
              (InsertStep(p) /\ TxOf(p, pos[p] + 1).enrolment_no_date \in Keys(db))
                  => db' = db ]_vars

\* A call on a later day has met a key stored on an earlier day with
\* another amount, GST, operator and resident.
C2_Witness ==
    \E p \in Procs : \E r \in db :
        /\ Inserted(p)
        /\ r.enrolment_no_date = TxOf(p, pos[p]).enrolment_no_date
        /\ r.upload_date # today[p]
        /\ r.total_amount_charged # TxOf(p, pos[p]).total_amount_charged
        /\ r.gst_amount # TxOf(p, pos[p]).gst_amount
        /\ r.operator_id # TxOf(p, pos[p]).operator_id
        /\ r.resident_name # TxOf(p, pos[p]).resident_name

\* processCSV has returned a summary to p and p has not replied yet.
Done(p) == pc[p] = "reply" /\ ret[p].kind = "ok"

\* The decoded amount and GST of record i of document f.
FileAmount(f, i) ==
    ParseFloat(Field(f.records[i], BuildHm(f.header), "TOTAL_AMOUNT_CHARGED")).f
FileKey(f, i) == Field(f.records[i], BuildHm(f.header), "ENROLMENT_NO_DATE")

\* The decoded amounts, GSTs and keys of all records of document f.
FileAmounts(f) ==
    LET m == BuildHm(f.header)
    IN  [i \in 1..Len(f.records) |->
            ParseFloat(Field(f.records[i], m, "TOTAL_AMOUNT_CHARGED")).f]
FileGsts(f) ==
    LET m == BuildHm(f.header)
    IN  [i \in 1..Len(f.records) |->
            ParseFloat(Field(f.records[i], m, "GST_AMOUNT")).f]
FileKeys(f) ==
    LET m == BuildHm(f.header)
    IN  {Field(f.records[i], m, "ENROLMENT_NO_DATE") : i \in 1..Len(f.records)}

\* g[1] + ... + g[n]
RECURSIVE SumTo(_, _)
SumTo(g, n) == IF n = 0 THEN 0 ELSE FloatAdd(g[n], SumTo(g, n - 1))

\* Row count, sums and slab counts over all records of a document.
FileSummary(f) ==
    LET n == Len(f.records)
        amt == FileAmounts(f)
    IN  [Rows    |-> n,
         Revenue |-> SumTo(amt, n),
         GST     |-> SumTo(FileGsts(f), n),
         Slabs   |-> [Count125 |-> Cardinality({i \in 1..n : amt[i] = 125}),
                      Count75  |-> Cardinality({i \in 1..n : amt[i] = 75}),
                      Count0   |-> Cardinality({i \in 1..n : amt[i] = 0})]]

\* The days from now to the last day of the model, as upload dates.
DaysAhead == {FormatDate(z) : z \in now..(BaseDay + MaxDay)}

\* C3: ingesting a well-formed CSV a second time, the same day or later,
\* leaves the table as the first ingestion left it, with each key of the
\* file stored exactly once, and both calls return the same summary: the
\* row count, sums and slab counts of the whole file.
C3_Idempotent ==
    \A p \in Procs : Done(p) =>
        LET once == processCSV(dbBefore.rows, file[p], today[p])
            whole == FileSummary(file[p])
        IN  /\ once.db = db
            /\ once.result = ret[p].result
            /\ \A k \in FileKeys(file[p]) :
                   Cardinality({r \in db : r.enrolment_no_date = k}) = 1
            /\ \A d \in DaysAhead :
                   LET twice == processCSV(once.db, file[p], d)
                   IN  /\ twice.kind = "ok"
                       /\ twice.db = once.db
                       /\ twice.result = once.result
                       /\ twice.result = whole

\* A first ingestion of two or more records into a table that held rows
\* added some, and the day has changed since it began.
C3_Witness ==
    \E p \in Procs :
        /\ Done(p)
        /\ Len(file[p].records) >= 2
        /\ dbBefore.rows # {}
        /\ db # dbBefore.rows
        /\ FormatDate(now) # today[p]

ScenarioFile ==
    Document(CanonicalHeader,
        << [ev |-> <<"A", "125", "10", "OP1", "Alice">>, short |-> FALSE],
           [ev |-> <<"B", "75", "5", "OP2", "Bob">>, short |-> FALSE],
           [ev |-> <<"A", "125", "10", "OP1", "Alice">>, short |-> FALSE] >>)

\* C4: a successful call returns the row count, sums and slab counts of
\* all records of the file, whether or not each insert added a row; the
\* file (A,125,10),(B,75,5),(A,125,10) ingested into an empty table gives
\* Rows=3, Revenue=325, GST=25, slabs 2/1/0 and exactly two stored rows.
C4_SummaryCountsAllRows ==
    \A p \in Procs : Done(p) =>
        /\ ret[p].result = FileSummary(file[p])
        /\ (file[p] = ScenarioFile /\ dbBefore.rows = {}) =>
              /\ ret[p].result =
                    [Rows |-> 3, Revenue |-> 325, GST |-> 25,
                     Slabs |-> [Count125 |-> 2, Count75 |-> 1, Count0 |-> 0]]
              /\ Cardinality(db) = 2
              /\ Keys(db) = {"A", "B"}

\* The scenario file has been ingested into an empty table.
C4_Witness ==
    \E p \in Procs : Done(p) /\ file[p] = ScenarioFile /\ dbBefore.rows = {}

\* The rows of a set with the given amount.
WithAmount(rows, a) == {r \in rows : r.total_amount_charged = a}

\* The sum of term[r] over rows.
RECURSIVE AddUp(_, _)
AddUp(rows, term) ==
    IF rows = {} THEN 0
    ELSE LET r == CHOOSE r \in rows : TRUE
         IN  FloatAdd(term[r], AddUp(rows \ {r}, term))

\* The totals of the stored amounts and GSTs of rows, NULLs left out.
Revenue(rows) ==
    LET v == {r \in rows : r.total_amount_charged # SqlNull}
    IN  AddUp(v, [r \in v |-> r.total_amount_charged])
Gst(rows) ==
    LET v == {r \in rows : r.gst_amount # SqlNull}
    IN  AddUp(v, [r \in v |-> r.gst_amount])

Periods == {"day", "week", "month", "year"}

\* C5: in the upload summary, in getAnalyticsFiltered and in every row of
\* getHistory, Count125, Count75 and Count0 are the numbers of rows with
\* amount exactly 125, 75 and 0; rows of any other amount are in none of
\* them but in the row count and the revenue; so the three counts sum to
\* at most the row count.
C5_SlabClassification ==
    /\ \A p \in Procs : Done(p) =>
          LET f == file[p]
              n == Len(f.records)
              amt == FileAmounts(f)
              s == ret[p].result.Slabs
          IN  /\ s.Count125 = Cardinality({i \in 1..n : amt[i] = 125})
              /\ s.Count75 = Cardinality({i \in 1..n : amt[i] = 75})
              /\ s.Count0 = Cardinality({i \in 1..n : amt[i] = 0})
              /\ s.Count125 + s.Count75 + s.Count0 <= ret[p].result.Rows
              /\ ret[p].result.Rows = n
              /\ ret[p].result.Revenue = SumTo(amt, n)
    /\ \A day \in {NullDate} \cup {r.upload_date : r \in db} :
          LET rows == IF day = NullDate THEN db
                      ELSE {r \in db : r.upload_date = day}
              a == getAnalyticsFiltered(db, day)
          IN  /\ a.s.Count125 = Cardinality(WithAmount(rows, 125))
              /\ a.s.Count75 = Cardinality(WithAmount(rows, 75))
              /\ a.s.Count0 = Cardinality(WithAmount(rows, 0))
              /\ a.total = Cardinality(rows)
              /\ a.rev = Revenue(rows)
              /\ a.gst = Gst(rows)
              /\ a.s.Count125 + a.s.Count75 + a.s.Count0 <= a.total
    /\ \A period \in Periods :
          LET h == getHistory(db, period, NullDate, NullDate)
          IN  \A i \in 1..Len(h) :
                LET g == h[i]
                    rows == {r \in db : GroupExpr(period, r.upload_date) = g.Period}
                IN  /\ g.Count125 = Cardinality(WithAmount(rows, 125))
                    /\ g.Count75 = Cardinality(WithAmount(rows, 75))
                    /\ g.Count0 = Cardinality(WithAmount(rows, 0))
                    /\ g.Total = Cardinality(rows)
                    /\ g.Revenue = Revenue(rows)
                    /\ g.Count125 + g.Count75 + g.Count0 <= g.Total

\* A file with a row of amount 100 has been ingested and the table holds a
\* row of amount 100 beside a row of a slab amount.
C5_Witness ==
    \E p \in Procs :
        /\ Done(p)
        /\ \E i \in 1..Len(file[p].records) : FileAmount(file[p], i) = 100
        /\ WithAmount(db, 100) # {}
        /\ WithAmount(db, 125) \cup WithAmount(db, 75) \cup WithAmount(db, 0) # {}

\* The required headers that no cell of the header row of f equals after
\* trimming.
AbsentHeaders(f) ==
    {Required[i] : i \in {k \in 1..5 :
        \A j \in 1..Len(f.header) : TrimSpace(f.header[j]) # Required[k]}}

MissingColumnErrors == {"missing column: " \o Required[i] : i \in 1..5}

\* C6: a call on a file whose header row lacks a required header (cells
\* compared after trimming blanks) fails with the missing-column error
\* naming an absent header, returns no summary, reads no record and leaves
\* the table as it was, whatever records follow; a file whose header row
\* has all five does not get that error.
C6_MissingColumn ==
    \A p \in Procs : (pc[p] # "idle" /\ file[p].header # <<>>) =>
        IF AbsentHeaders(file[p]) # {}
        THEN /\ pc[p] = "reply"
             /\ ret[p].kind = "err"
             /\ ret[p].result = ZeroResult
             /\ \E n \in AbsentHeaders(file[p]) :
                    ret[p].err = "missing column: " \o n
             /\ pos[p] = 0
             /\ db = dbBefore.rows
        ELSE ret[p].err \notin MissingColumnErrors

\* A file without the GST_AMOUNT column, with records, was handed in while
\* the table held rows.
C6_Witness ==
    \E p \in Procs :
        /\ pc[p] = "reply"
        /\ AbsentHeaders(file[p]) = {"GST_AMOUNT"}
        /\ ret[p].err = "missing column: GST_AMOUNT"
        /\ Len(file[p].records) >= 1
        /\ db # {}

\* The latest upload date of a non-empty table, by the calendar.
LatestDay(table) ==
    CHOOSE d \in {r.upload_date : r \in table} :
        \A r \in table : ParseDate(r.upload_date) <= ParseDate(d)

\* C7: a clear-last-batch request on an empty table changes nothing and
\* answers with the redirect; on a non-empty table it deletes exactly the
\* rows of the latest upload date and leaves every other row as it was.
C7_ClearLastBatch ==
    [][ /\ (rpc = "idle" /\ rpc' # "idle" /\ status' # 405) =>
              /\ db' = db
              /\ IF db = {} THEN rpc' = "reply" /\ status' = 303
                 ELSE rpc' = "delete"
        /\ (rpc = "delete" /\ rpc' # "delete") =>
              /\ status' = 303
              /\ db # {}
              /\ db' = {r \in db : r.upload_date # LatestDay(db)} ]_vars

\* A request has deleted the later of two batches and the earlier is left.
C7_Witness ==
    /\ rpc = "reply"
    /\ lastDate # NullDate
    /\ db # {}
    /\ \A r \in db : ParseDate(r.upload_date) < ParseDate(lastDate)

\* C8: a clear-last request that follows ingestion call U removes the rows
\* U added and keeps every row stored before U: the table is again what
\* it was when U began.
C8_UndoLastUpload ==
    [][ (rpc = "delete" /\ rpc' # "delete" /\ dbBefore.valid)
            => db' = dbBefore.rows ]_vars

\* C9: getHistory("day", "", "") has one row per upload date of the table,
\* every stored row falls in exactly one of them, the Totals add up to the
\* number of stored rows and Revenue and GST to the table's sums, and the
\* rows come in strictly descending order of date.
C9_HistoryByDay ==
    LET h == getHistory(db, "day", NullDate, NullDate)
        n == Len(h)
        dates == {r.upload_date : r \in db}
    IN  /\ n = Cardinality(dates)
        /\ {h[i].Period : i \in 1..n} = dates
        /\ \A r \in db : Cardinality({i \in 1..n : h[i].Period = r.upload_date}) = 1
        /\ SumTo([i \in 1..n |-> h[i].Total], n) = Cardinality(db)
        /\ SumTo([i \in 1..n |-> h[i].Revenue], n) = Revenue(db)
        /\ SumTo([i \in 1..n |-> h[i].GST], n) = Gst(db)
        /\ \A i, j \in 1..n :
               i < j => ParseDate(h[i].Period) > ParseDate(h[j].Period)

\* The table holds rows of two upload dates.
C9_Witness ==
    /\ Cardinality({r.upload_date : r \in db}) >= 2
    /\ Len(getHistory(db, "day", NullDate, NullDate)) >= 2

\* processCSV has returned the field-count error to p.
DecodeFailed(p) == pc[p] = "reply" /\ ret[p].err = "wrong number of fields"

\* Document f cut after its first n records.
FirstRecords(f, n) == [f EXCEPT !.records = SubSeq(f.records, 1, n)]

\* C10: when record N+1 is the first that fails to decode, the call
\* returns the decode error and no summary, the table is what ingesting
\* the first N records alone gives (their inserts are kept), and no later
\* record is inserted.
C10_NoRollback ==
    \A p \in Procs : DecodeFailed(p) =>
        LET f == file[p]
            n == pos[p]
        IN  /\ n < Len(f.records)
            /\ FieldCountError(f, n + 1)
            /\ \A i \in 1..n : ~FieldCountError(f, i)
            /\ ret[p].kind = "err"
            /\ ret[p].result = ZeroResult
            /\ dbBefore.rows \subseteq db
            /\ \A i \in 1..n : FileKey(f, i) \in Keys(db)
            /\ db = processCSV(dbBefore.rows, FirstRecords(f, n), today[p]).db
            /\ \A r \in db \ dbBefore.rows :
                   \E i \in 1..n : r.enrolment_no_date = FileKey(f, i)

\* The second record failed after the first had added a row, and a later
\* record carries a key that is not stored.
C10_Witness ==
    \E p \in Procs :
        /\ DecodeFailed(p)
        /\ pos[p] >= 1
        /\ db # dbBefore.rows
        /\ \E i \in (pos[p] + 2)..Len(file[p].records) :
               /\ ~FieldCountError(file[p], i)
               /\ FileKey(file[p], i) \notin Keys(db)

\* The text of the amount and GST fields of record i of p's file.
AmountText(p, i) == Field(file[p].records[i], hm[p], "TOTAL_AMOUNT_CHARGED")
GstText(p, i) == Field(file[p].records[i], hm[p], "GST_AMOUNT")

\* The rows p's call has added from record i: its key and resident name.
AddedFor(p, i) ==
    {r \in db \ dbBefore.rows :
        /\ r.enrolment_no_date = Field(file[p].records[i], hm[p], "ENROLMENT_NO_DATE")
        /\ r.resident_name = Field(file[p].records[i], hm[p], "RESIDENT_NAME")}

\* C11: for every record the call has processed, an amount or GST field
\* that strconv.ParseFloat rejects is taken as exactly zero: the row the
\* record adds is stored with 0 in that column, the call returns no error
\* for it, and a returned summary counts in Count0 every record whose
\* amount field is rejected or denotes 0.
C11_LenientZero ==
    \A p \in Procs : (pc[p] \in {"rows", "reply"} /\ dbBefore.valid) =>
        /\ \A i \in 1..pos[p] :
               /\ ParseFloat(AmountText(p, i)).err =>
                      \A r \in AddedFor(p, i) : r.total_amount_charged = 0
               /\ ParseFloat(GstText(p, i)).err =>
                      \A r \in AddedFor(p, i) : r.gst_amount = 0
               /\ dberr[p] = ""
        /\ Done(p) =>
               ret[p].result.Slabs.Count0 =
                   Cardinality({i \in 1..Len(file[p].records) :
                       \/ ParseFloat(AmountText(p, i)).err
                       \/ ParseFloat(AmountText(p, i)).f = 0})

\* The rows of a table with the key of transaction t.
SameKey(table, t) == {r \in table : r.enrolment_no_date = t.enrolment_no_date}

\* C12: when ingestion calls interleave record by record, an insert of a
\* key that another call (or an earlier record) has stored adds no row and
\* changes none, after every insert the table holds exactly one row of the
\* inserted key, no insert returns an error, every insert is counted in
\* its own call's summary, and every call returns the summary of its whole
\* file.
C12_RacingInserts ==
    [][\A p \in Procs :
          /\ InsertStep(p) =>
                LET t == TxOf(p, pos[p] + 1)
                IN  /\ Cardinality(SameKey(db', t)) = 1
                    /\ SameKey(db, t) # {} => db' = db
                    /\ SameKey(db, t) = {} => db' = db \cup {StoredRow(t)}
                    /\ dberr'[p] = ""
                    /\ result'[p] = Accumulate(result[p],
                           t.total_amount_charged, t.gst_amount)
                    /\ result'[p].Rows = result[p].Rows + 1
          /\ (pc[p] = "rows" /\ pc'[p] = "reply") =>
                /\ ret'[p].kind = "ok"
                /\ ret'[p].result = FileSummary(file[p]) ]_vars

\* Both calls have run at once on files with the same key and different
\* amounts: both have returned a summary of one row and the table holds
\* the one row of the call that inserted first.
C12_Witness ==
    /\ \A p \in Procs :
          /\ Done(p)
          /\ Len(file[p].records) = 1
          /\ ret[p].result.Rows = 1
    /\ FileKeys(file["web"]) = FileKeys(file["bot"])
    /\ FileAmounts(file["web"])[1] # FileAmounts(file["bot"])[1]
    /\ Cardinality(db) = 1
    /\ \E r \in db : r.total_amount_charged = FileAmounts(file["bot"])[1]

\* The Monday of the week of day z (days since 1970-01-01, a Thursday).
MondayOf(z) == z - ((z + 3) % 7)

\* Two dates lie in the same Monday-to-Sunday week.
SameIsoWeek(d, e) == MondayOf(ParseDate(d)) = MondayOf(ParseDate(e))

\* Two dates lie in the same bucket of a period; a week is cut at the
\* year's end.
SameBucket(period, d, e) ==
    CASE period = "week"  -> d[1] = e[1] /\ SameIsoWeek(d, e)
      [] period = "month" -> d[1] = e[1] /\ d[2] = e[2]
      [] period = "year"  -> d[1] = e[1]
      [] OTHER            -> d = e

\* The period values of a request: the four named ones and two others.
AnyPeriods == Periods \cup {"", "hour"}

\* The rows of history h that stored row r is aggregated in.
HistoryRowsOf(h, period, r) ==
    {i \in 1..Len(h) : h[i].Period = GroupExpr(period, r.upload_date)}

\* C13 as stated: with period "week" two stored rows are in the same
\* history row if and only if their upload dates lie in the same ISO week,
\* also across a year boundary.
C13_IsoWeek ==
    LET h == getHistory(db, "week", NullDate, NullDate)
    IN  \A q, r \in db :
            (HistoryRowsOf(h, "week", q) = HistoryRowsOf(h, "week", r))
                <=> SameIsoWeek(q.upload_date, r.upload_date)

\* C13 amended: with period "week" two stored rows are in the same history
\* row if and only if their upload dates lie in the same year and the same
\* Monday-to-Sunday week (a week across a year boundary gives two rows);
\* "month" groups by year and month, "year" by year, any other period by
\* the date; every stored row is in exactly one history row.
C13_WeekOfYear ==
    \A period \in AnyPeriods :
        LET h == getHistory(db, period, NullDate, NullDate)
        IN  /\ \A r \in db : Cardinality(HistoryRowsOf(h, period, r)) = 1
            /\ \A q, r \in db :
                   (HistoryRowsOf(h, period, q) = HistoryRowsOf(h, period, r))
                       <=> SameBucket(period, q.upload_date, r.upload_date)
            /\ Len(h) <= Cardinality(db)

\* The table holds rows of a Tuesday and of the Wednesday after it, which
\* begins a year, and a row of the Monday after: the week history has
\* three rows, the month and the year history two.
C13_Witness ==
    /\ \E q, r \in db :
          /\ q.upload_date[1] # r.upload_date[1]
          /\ SameIsoWeek(q.upload_date, r.upload_date)
    /\ \E q, r \in db :
          /\ q.upload_date[1] = r.upload_date[1]
          /\ q.upload_date[2] = r.upload_date[2]
          /\ ~SameIsoWeek(q.upload_date, r.upload_date)
    /\ Len(getHistory(db, "week", NullDate, NullDate)) = 3
    /\ Len(getHistory(db, "month", NullDate, NullDate)) = 2
    /\ Len(getHistory(db, "year", NullDate, NullDate)) = 2

\* The bounds a history request may give: none, or a day from the eve of
\* the first day of the model to the morrow of the last.
FilterDates ==
    {NullDate} \cup {FormatDate(z) : z \in (BaseDay - 1)..(BaseDay + MaxDay + 1)}

\* The stored rows whose upload date lies within the bounds, by the
\* calendar; NullDate is no bound.
Within(table, fromDate, toDate) ==
    {r \in table :
        /\ fromDate # NullDate => ParseDate(fromDate) <= ParseDate(r.upload_date)
        /\ toDate # NullDate => ParseDate(r.upload_date) <= ParseDate(toDate)}

\* C14: in every table and for every period, the history without a date
\* filter adds up to what getAnalyticsFiltered("") returns (revenue, GST,
\* the three slab counts and the row count), and the history with bounds
\* from and to, each possibly absent, covers exactly the stored rows whose
\* upload date lies within them.
C14_PathsAgree ==
    \A period \in Periods :
        /\ LET h == getHistory(db, period, NullDate, NullDate)
               n == Len(h)
               a == getAnalyticsFiltered(db, NullDate)
           IN  /\ SumTo([i \in 1..n |-> h[i].Revenue], n) = a.rev
               /\ SumTo([i \in 1..n |-> h[i].GST], n) = a.gst
               /\ SumTo([i \in 1..n |-> h[i].Count125], n) = a.s.Count125
               /\ SumTo([i \in 1..n |-> h[i].Count75], n) = a.s.Count75
               /\ SumTo([i \in 1..n |-> h[i].Count0], n) = a.s.Count0
               /\ SumTo([i \in 1..n |-> h[i].Total], n) = a.total
        /\ \A fromDate, toDate \in FilterDates :
              LET h == getHistory(db, period, fromDate, toDate)
                  n == Len(h)
                  rows == Within(db, fromDate, toDate)
              IN  /\ {h[i].Period : i \in 1..n} =
                         {GroupExpr(period, r.upload_date) : r \in rows}
                  /\ SumTo([i \in 1..n |-> h[i].Total], n) = Cardinality(rows)

====
